---- MODULE Spec2Model ----
(***************************************************************************)
(* State machine of the two Anchor programs of smart-tourist:              *)
(*   programs/emergency-alert      (initialize, trigger_alert,             *)
(*                                  resolve_alert, add_emergency_contact)  *)
(*   programs/temporary-access-nft (initialize, mint_access_nft,           *)
(*                                  verify_access, revoke_pass,            *)
(*                                  update_metadata)                       *)
(* One action is one instruction: Anchor's account validation (the         *)
(* #[derive(Accounts)] struct, in field order) followed by the handler.    *)
(* An instruction that returns an error is rolled back by the runtime, so  *)
(* it changes nothing but `result`, the outcome the caller observes.       *)
(* Instructions that touch the same account are serialised by the runtime, *)
(* so concurrent callers are interleavings of these atomic actions.        *)
(***************************************************************************)
EXTENDS Integers, Sequences, FiniteSets, TLC

VARIABLES
    emergency_alert,  \* the EmergencyAlert config account (PDA "emergency_alert")
    alerts,           \* Alert accounts, keyed by the u64 in their PDA seeds
    contacts,         \* EmergencyContact accounts, keyed by contact_type
    alert_events,     \* events emitted by the emergency-alert program, in order
    program_config,   \* the ProgramConfig account (PDA "program_config")
    access_nfts,      \* AccessNft accounts, keyed by the u64 in their PDA seeds
    nft_events,       \* events emitted by the temporary-access-nft program
    clock,            \* Clock::get()?.unix_timestamp
    result            \* outcome of the last instruction

vars == <<emergency_alert, alerts, contacts, alert_events,
          program_config, access_nfts, nft_events, clock, result>>

alert_vars == <<emergency_alert, alerts, contacts, alert_events>>
nft_vars == <<program_config, access_nfts, nft_events>>

----------------------------------------------------------------------------
\* Bounds of the model.

\* trigger_alert is enabled while alert_counter < MaxAlerts
MaxAlerts == 2
\* mint_access_nft is enabled while nft_counter < MaxNfts
MaxNfts == 2
\* SpecAlert, which draws every input from its full set, keeps at most
\* MaxAlertsWide alerts; SpecNft keeps at most MaxNftsWide passes
MaxAlertsWide == 1
MaxNftsWide == 1
\* the clock runs over 0..MaxTime
MaxTime == 1
\* instructions of temporary-access-nft emit while Len(nft_events) < MaxNftEvents
MaxNftEvents == 3

\* Signers and wallets.
Identities == {"A", "T", "X"}
\* alert_type: u8; 0, 1 and 2 are the valid categories
AlertTypes == {0, 1, 2, 3}
Locations == {"L1"}
Descriptions == {"D1"}
ContactTypes == {"police"}
ContactAddresses == {"X"}
\* Keys of the Alert / AccessNft accounts a caller may pass.
AlertKeys == 0..(MaxAlerts - 1)
NftKeys == 0..(MaxNfts - 1)
WideAlertKeys == 0..(MaxAlertsWide - 1)
WideNftKeys == 0..(MaxNftsWide - 1)
\* alert_type as SpecPrograms gives it: one valid category, one invalid.
FewAlertTypes == {2, 3}
\* Signers of the first initialize of temporary-access-nft, and of
\* mint_access_nft.
Authorities == {"A", "T"}
Tourists == {"T", "X"}
\* zone_id as verify_access is given it, and as mint_access_nft is.
Zones == {"Z1", "Z2"}
MintZones == {"Z1"}
\* metadata_uri as mint_access_nft is given it, and as update_metadata is.
MintUris == {"u1"}
Uris == {"u2"}
Hashes == {"h1"}
\* expiry_timestamp: i64, around the clock at the call
Expiries(now) == {now - 1, now, now + 1}

\* An address that holds no account of the program.
NoAccount == [initialized |-> FALSE]

\* The outcome of an instruction: its name, signer, the key of the record
\* account passed, the error code ("Ok" on success), the returned bool
\* (verify_access) and the numeric argument (alert_type, expiry_timestamp).
Result(op, caller, key, code) ==
    [op |-> op, caller |-> caller, key |-> key, code |-> code, ret |-> FALSE,
     arg |-> 0]

----------------------------------------------------------------------------
\* programs/emergency-alert

\* Initialize that accepts an occupied PDA (init_if_needed).
Initialize_if_needed ==
    "Ok"

\* #[derive(Accounts)] Initialize: `init` fails when the PDA is occupied.
Initialize ==
    IF emergency_alert # NoAccount THEN "AlreadyInUse" ELSE "Ok"

initialize(authority) ==
    LET acc == Initialize IN
    IF acc # "Ok"
    THEN /\ result' = Result("initialize", authority, 0, acc)
         /\ UNCHANGED <<alert_vars, nft_vars, clock>>
    ELSE /\ emergency_alert' = [initialized |-> TRUE, authority |-> authority,
                                alert_counter |-> 0]
         /\ result' = Result("initialize", authority, 0, "Ok")
         /\ UNCHANGED <<alerts, contacts, alert_events, nft_vars, clock>>

\* #[derive(Accounts)] TriggerAlert: the config must exist; the alert account
\* is the PDA seeded with the current counter, and `init` needs it to be free.
TriggerAlert ==
    IF emergency_alert = NoAccount THEN "AccountNotInitialized"
    ELSE IF emergency_alert.alert_counter \in DOMAIN alerts THEN "AlreadyInUse"
    ELSE "Ok"

\* trigger_alert that stores a constant alert_id instead of the counter.
trigger_alert_body_constid(counter, tourist, alert_type, location, description, now) ==
    IF ~(alert_type <= 2)
    THEN [code |-> "InvalidAlertType"]
    ELSE [code |-> "Ok",
          alert |-> [alert_id |-> 0, tourist |-> tourist,
                     alert_type |-> alert_type, location |-> location,
                     description |-> description, timestamp |-> now,
                     is_active |-> TRUE],
          counter |-> counter + 1,
          event |-> [name |-> "AlertTriggered", alert_id |-> 0,
                     tourist |-> tourist, alert_type |-> alert_type,
                     location |-> location, description |-> description,
                     timestamp |-> now]]

\* trigger_alert whose require! is alert_type < 2.
trigger_alert_body_lt2(counter, tourist, alert_type, location, description, now) ==
    IF ~(alert_type < 2)
    THEN [code |-> "InvalidAlertType"]
    ELSE [code |-> "Ok",
          alert |-> [alert_id |-> counter, tourist |-> tourist,
                     alert_type |-> alert_type, location |-> location,
                     description |-> description, timestamp |-> now,
                     is_active |-> TRUE],
          counter |-> counter + 1,
          event |-> [name |-> "AlertTriggered", alert_id |-> counter,
                     tourist |-> tourist, alert_type |-> alert_type,
                     location |-> location, description |-> description,
                     timestamp |-> now]]

\* The handler of trigger_alert on the validated accounts.
trigger_alert_body(counter, tourist, alert_type, location, description, now) ==
    IF ~(alert_type <= 2)
    THEN [code |-> "InvalidAlertType"]
    ELSE [code |-> "Ok",
          alert |-> [alert_id |-> counter, tourist |-> tourist,
                     alert_type |-> alert_type, location |-> location,
                     description |-> description, timestamp |-> now,
                     is_active |-> TRUE],
          counter |-> counter + 1,
          event |-> [name |-> "AlertTriggered", alert_id |-> counter,
                     tourist |-> tourist, alert_type |-> alert_type,
                     location |-> location, description |-> description,
                     timestamp |-> now]]

\* trigger_alert whose rejected call is not rolled back: the account that
\* `init` created (zeroed) before the handler ran stays at the alert's address.
trigger_alert_norollback(tourist, alert_type, location, description) ==
    LET acc == TriggerAlert
        key == IF emergency_alert = NoAccount THEN 0
               ELSE emergency_alert.alert_counter
        res == [Result("trigger_alert", tourist, key, acc) EXCEPT !.arg = alert_type]
    IN
    IF acc # "Ok"
    THEN /\ result' = res
         /\ UNCHANGED <<alert_vars, nft_vars, clock>>
    ELSE LET out == trigger_alert_body(emergency_alert.alert_counter, tourist,
                                       alert_type, location, description, clock)
         IN
         /\ emergency_alert.alert_counter < MaxAlerts
         /\ IF out.code # "Ok"
            THEN /\ alerts' = [k \in DOMAIN alerts \cup {key} |->
                                  IF k = key
                                  THEN [alert_id |-> 0, tourist |-> "",
                                        alert_type |-> 0, location |-> "",
                                        description |-> "", timestamp |-> 0,
                                        is_active |-> FALSE]
                                  ELSE alerts[k]]
                 /\ result' = [res EXCEPT !.code = out.code]
                 /\ UNCHANGED <<emergency_alert, contacts, alert_events,
                                nft_vars, clock>>
            ELSE /\ alerts' = [k \in DOMAIN alerts \cup {key} |->
                                  IF k = key THEN out.alert ELSE alerts[k]]
                 /\ emergency_alert' =
                        [emergency_alert EXCEPT !.alert_counter = out.counter]
                 /\ alert_events' = Append(alert_events, out.event)
                 /\ result' = res
                 /\ UNCHANGED <<contacts, nft_vars, clock>>

trigger_alert(tourist, alert_type, location, description) ==
    LET acc == TriggerAlert
        key == IF emergency_alert = NoAccount THEN 0
               ELSE emergency_alert.alert_counter
        res == [Result("trigger_alert", tourist, key, acc) EXCEPT !.arg = alert_type]
    IN
    IF acc # "Ok"
    THEN /\ result' = res
         /\ UNCHANGED <<alert_vars, nft_vars, clock>>
    ELSE LET out == trigger_alert_body(emergency_alert.alert_counter, tourist,
                                       alert_type, location, description, clock)
         IN
         IF out.code # "Ok"
         THEN /\ result' = [res EXCEPT !.code = out.code]
              /\ UNCHANGED <<alert_vars, nft_vars, clock>>
         ELSE /\ emergency_alert.alert_counter < MaxAlerts
              /\ alerts' = [k \in DOMAIN alerts \cup {key} |->
                               IF k = key THEN out.alert ELSE alerts[k]]
              /\ emergency_alert' =
                     [emergency_alert EXCEPT !.alert_counter = out.counter]
              /\ alert_events' = Append(alert_events, out.event)
              /\ result' = res
              /\ UNCHANGED <<contacts, nft_vars, clock>>

\* #[derive(Accounts)] ResolveAlert: the config and the alert must exist.
ResolveAlert(key) ==
    IF emergency_alert = NoAccount THEN "AccountNotInitialized"
    ELSE IF key \notin DOMAIN alerts THEN "AccountNotInitialized"
    ELSE "Ok"

\* resolve_alert as a toggle: no is_active check, the flag is flipped.
resolve_alert_body_toggle(alert, authority, tourist, now) ==
    IF ~(alert.tourist = tourist \/ authority = tourist)
    THEN [code |-> "Unauthorized"]
    ELSE [code |-> "Ok",
          alert |-> [alert EXCEPT !.is_active = ~alert.is_active],
          event |-> [name |-> "AlertResolved", alert_id |-> alert.alert_id,
                     tourist |-> tourist, resolved_at |-> now]]

\* resolve_alert without require!(alert.is_active, ..).
resolve_alert_body_norequire(alert, authority, tourist, now) ==
    IF ~(alert.tourist = tourist \/ authority = tourist)
    THEN [code |-> "Unauthorized"]
    ELSE [code |-> "Ok",
          alert |-> [alert EXCEPT !.is_active = FALSE],
          event |-> [name |-> "AlertResolved", alert_id |-> alert.alert_id,
                     tourist |-> tourist, resolved_at |-> now]]

\* resolve_alert without the authorization require!.
resolve_alert_body_noauth(alert, authority, tourist, now) ==
    IF ~alert.is_active
    THEN [code |-> "AlertAlreadyResolved"]
    ELSE [code |-> "Ok",
          alert |-> [alert EXCEPT !.is_active = FALSE],
          event |-> [name |-> "AlertResolved", alert_id |-> alert.alert_id,
                     tourist |-> tourist, resolved_at |-> now]]

\* resolve_alert that authorizes the reporter only.
resolve_alert_body_reporter_only(alert, authority, tourist, now) ==
    IF ~alert.is_active
    THEN [code |-> "AlertAlreadyResolved"]
    ELSE IF ~(alert.tourist = tourist)
    THEN [code |-> "Unauthorized"]
    ELSE [code |-> "Ok",
          alert |-> [alert EXCEPT !.is_active = FALSE],
          event |-> [name |-> "AlertResolved", alert_id |-> alert.alert_id,
                     tourist |-> tourist, resolved_at |-> now]]

\* resolve_alert whose is_active check lets the authority through.
resolve_alert_body_authority_again(alert, authority, tourist, now) ==
    IF ~alert.is_active /\ authority # tourist
    THEN [code |-> "AlertAlreadyResolved"]
    ELSE IF ~(alert.tourist = tourist \/ authority = tourist)
    THEN [code |-> "Unauthorized"]
    ELSE [code |-> "Ok",
          alert |-> [alert EXCEPT !.is_active = FALSE],
          event |-> [name |-> "AlertResolved", alert_id |-> alert.alert_id,
                     tourist |-> tourist, resolved_at |-> now]]

\* resolve_alert that also records the resolver as the alert's tourist.
resolve_alert_body_takeover(alert, authority, tourist, now) ==
    IF ~alert.is_active
    THEN [code |-> "AlertAlreadyResolved"]
    ELSE IF ~(alert.tourist = tourist \/ authority = tourist)
    THEN [code |-> "Unauthorized"]
    ELSE [code |-> "Ok",
          alert |-> [alert EXCEPT !.is_active = FALSE, !.tourist = tourist],
          event |-> [name |-> "AlertResolved", alert_id |-> alert.alert_id,
                     tourist |-> tourist, resolved_at |-> now]]

\* The handler of resolve_alert on the validated accounts.
resolve_alert_body(alert, authority, tourist, now) ==
    IF ~alert.is_active
    THEN [code |-> "AlertAlreadyResolved"]
    ELSE IF ~(alert.tourist = tourist \/ authority = tourist)
    THEN [code |-> "Unauthorized"]
    ELSE [code |-> "Ok",
          alert |-> [alert EXCEPT !.is_active = FALSE],
          event |-> [name |-> "AlertResolved", alert_id |-> alert.alert_id,
                     tourist |-> tourist, resolved_at |-> now]]

resolve_alert(tourist, key) ==
    LET acc == ResolveAlert(key) IN
    IF acc # "Ok"
    THEN /\ result' = Result("resolve_alert", tourist, key, acc)
         /\ UNCHANGED <<alert_vars, nft_vars, clock>>
    ELSE LET out == resolve_alert_body(alerts[key], emergency_alert.authority,
                                       tourist, clock)
         IN
         IF out.code # "Ok"
         THEN /\ result' = Result("resolve_alert", tourist, key, out.code)
              /\ UNCHANGED <<alert_vars, nft_vars, clock>>
         ELSE /\ alerts' = [alerts EXCEPT ![key] = out.alert]
              /\ alert_events' = Append(alert_events, out.event)
              /\ result' = Result("resolve_alert", tourist, key, "Ok")
              /\ UNCHANGED <<emergency_alert, contacts, nft_vars, clock>>

\* #[derive(Accounts)] AddEmergencyContact: the config must exist and name the
\* signer as its authority; `init` needs the contact PDA to be free.
AddEmergencyContact(authority, contact_type) ==
    IF emergency_alert = NoAccount THEN "AccountNotInitialized"
    ELSE IF ~(emergency_alert.authority = authority) THEN "ConstraintRaw"
    ELSE IF contact_type \in DOMAIN contacts THEN "AlreadyInUse"
    ELSE "Ok"

add_emergency_contact(authority, contact_type, contact_address) ==
    LET acc == AddEmergencyContact(authority, contact_type)
        res == Result("add_emergency_contact", authority, 0, acc)
    IN
    IF acc # "Ok"
    THEN /\ result' = res
         /\ UNCHANGED <<alert_vars, nft_vars, clock>>
    ELSE /\ contacts' = [t \in DOMAIN contacts \cup {contact_type} |->
                            IF t = contact_type
                            THEN [contact_type |-> contact_type,
                                  contact_address |-> contact_address,
                                  authority |-> authority]
                            ELSE contacts[t]]
         /\ alert_events' = Append(alert_events,
                [name |-> "EmergencyContactAdded", contact_type |-> contact_type,
                 contact_address |-> contact_address])
         /\ result' = res
         /\ UNCHANGED <<emergency_alert, alerts, nft_vars, clock>>

----------------------------------------------------------------------------
\* programs/temporary-access-nft

\* #[derive(Accounts)] Initialize: `init` fails when the PDA is occupied.
NftInitialize ==
    IF program_config # NoAccount THEN "AlreadyInUse" ELSE "Ok"

nft_initialize(authority) ==
    LET acc == NftInitialize IN
    IF acc # "Ok"
    THEN /\ result' = Result("nft_initialize", authority, 0, acc)
         /\ UNCHANGED <<alert_vars, nft_vars, clock>>
    ELSE /\ program_config' = [initialized |-> TRUE, authority |-> authority,
                               nft_counter |-> 0]
         /\ result' = Result("nft_initialize", authority, 0, "Ok")
         /\ UNCHANGED <<access_nfts, nft_events, alert_vars, clock>>

\* #[derive(Accounts)] MintAccessNft: the config must exist; the pass account
\* is the PDA seeded with the current counter, and `init` needs it to be free.
MintAccessNft ==
    IF program_config = NoAccount THEN "AccountNotInitialized"
    ELSE IF program_config.nft_counter \in DOMAIN access_nfts THEN "AlreadyInUse"
    ELSE "Ok"

\* mint_access_nft whose require! accepts expiry_timestamp == current_time.
mint_access_nft_body_geq(counter, tourist, tourist_id_hash, zone_id, expiry_timestamp, metadata_uri, current_time) ==
    IF ~(expiry_timestamp >= current_time)
    THEN [code |-> "InvalidExpiryTime"]
    ELSE [code |-> "Ok",
          access_nft |-> [nft_id |-> counter,
                          tourist_id_hash |-> tourist_id_hash,
                          zone_id |-> zone_id,
                          expiry_timestamp |-> expiry_timestamp,
                          tourist_wallet |-> tourist,
                          is_valid |-> TRUE,
                          metadata_uri |-> metadata_uri,
                          minted_at |-> current_time],
          counter |-> counter + 1,
          event |-> [name |-> "AccessNftMinted", nft_id |-> counter,
                     tourist_wallet |-> tourist,
                     tourist_id_hash |-> tourist_id_hash, zone_id |-> zone_id,
                     expiry_timestamp |-> expiry_timestamp,
                     metadata_uri |-> metadata_uri,
                     minted_at |-> current_time]]

\* mint_access_nft without program_config.nft_counter += 1.
mint_access_nft_body_nocount(counter, tourist, tourist_id_hash, zone_id, expiry_timestamp, metadata_uri, current_time) ==
    IF ~(expiry_timestamp > current_time)
    THEN [code |-> "InvalidExpiryTime"]
    ELSE [code |-> "Ok",
          access_nft |-> [nft_id |-> counter,
                          tourist_id_hash |-> tourist_id_hash,
                          zone_id |-> zone_id,
                          expiry_timestamp |-> expiry_timestamp,
                          tourist_wallet |-> tourist,
                          is_valid |-> TRUE,
                          metadata_uri |-> metadata_uri,
                          minted_at |-> current_time],
          counter |-> counter,
          event |-> [name |-> "AccessNftMinted", nft_id |-> counter,
                     tourist_wallet |-> tourist,
                     tourist_id_hash |-> tourist_id_hash, zone_id |-> zone_id,
                     expiry_timestamp |-> expiry_timestamp,
                     metadata_uri |-> metadata_uri,
                     minted_at |-> current_time]]

\* The handler of mint_access_nft on the validated accounts.
mint_access_nft_body(counter, tourist, tourist_id_hash, zone_id, expiry_timestamp, metadata_uri, current_time) ==
    IF ~(expiry_timestamp > current_time)
    THEN [code |-> "InvalidExpiryTime"]
    ELSE [code |-> "Ok",
          access_nft |-> [nft_id |-> counter,
                          tourist_id_hash |-> tourist_id_hash,
                          zone_id |-> zone_id,
                          expiry_timestamp |-> expiry_timestamp,
                          tourist_wallet |-> tourist,
                          is_valid |-> TRUE,
                          metadata_uri |-> metadata_uri,
                          minted_at |-> current_time],
          counter |-> counter + 1,
          event |-> [name |-> "AccessNftMinted", nft_id |-> counter,
                     tourist_wallet |-> tourist,
                     tourist_id_hash |-> tourist_id_hash, zone_id |-> zone_id,
                     expiry_timestamp |-> expiry_timestamp,
                     metadata_uri |-> metadata_uri,
                     minted_at |-> current_time]]

mint_access_nft(tourist, tourist_id_hash, zone_id, expiry_timestamp, metadata_uri) ==
    LET acc == MintAccessNft
        key == IF program_config = NoAccount THEN 0
               ELSE program_config.nft_counter
        res == [Result("mint_access_nft", tourist, key, acc)
                    EXCEPT !.arg = expiry_timestamp]
    IN
    IF acc # "Ok"
    THEN /\ result' = res
         /\ UNCHANGED <<alert_vars, nft_vars, clock>>
    ELSE LET out == mint_access_nft_body(program_config.nft_counter, tourist,
                        tourist_id_hash, zone_id, expiry_timestamp,
                        metadata_uri, clock)
         IN
         IF out.code # "Ok"
         THEN /\ result' = [res EXCEPT !.code = out.code]
              /\ UNCHANGED <<alert_vars, nft_vars, clock>>
         ELSE /\ program_config.nft_counter < MaxNfts
              /\ Len(nft_events) < MaxNftEvents
              /\ access_nfts' = [k \in DOMAIN access_nfts \cup {key} |->
                                    IF k = key THEN out.access_nft
                                    ELSE access_nfts[k]]
              /\ program_config' =
                     [program_config EXCEPT !.nft_counter = out.counter]
              /\ nft_events' = Append(nft_events, out.event)
              /\ result' = res
              /\ UNCHANGED <<alert_vars, clock>>

\* #[derive(Accounts)] VerifyAccess: the pass must exist, and its two
\* `constraint`s compare the record with the instruction's arguments.
VerifyAccess(key, tourist_wallet, zone_id) ==
    IF key \notin DOMAIN access_nfts THEN "AccountNotInitialized"
    ELSE IF ~(access_nfts[key].tourist_wallet = tourist_wallet) THEN "ConstraintRaw"
    ELSE IF ~(access_nfts[key].zone_id = zone_id) THEN "ConstraintRaw"
    ELSE "Ok"

\* is_valid as the handler of verify_access computes it.
verify_access_is_valid(access_nft, tourist_wallet, zone_id, current_time) ==
    /\ access_nft.is_valid
    /\ access_nft.tourist_wallet = tourist_wallet
    /\ access_nft.zone_id = zone_id
    /\ access_nft.expiry_timestamp > current_time

\* The handler of verify_access on the validated account.
verify_access_body(access_nft, tourist_wallet, zone_id, current_time) ==
    LET is_valid == verify_access_is_valid(access_nft, tourist_wallet,
                                           zone_id, current_time)
    IN [code |-> "Ok", ret |-> is_valid,
        event |-> [name |-> "AccessVerified", nft_id |-> access_nft.nft_id,
                   tourist_wallet |-> tourist_wallet, zone_id |-> zone_id,
                   is_valid |-> is_valid, verified_at |-> current_time]]

\* verify_access that uses the pass up: a call that returns true clears
\* is_valid.
verify_access_consuming(key, tourist_wallet, zone_id) ==
    LET acc == VerifyAccess(key, tourist_wallet, zone_id)
        res == Result("verify_access", "-", key, acc)
    IN
    IF acc # "Ok"
    THEN /\ result' = res
         /\ UNCHANGED <<alert_vars, nft_vars, clock>>
    ELSE LET out == verify_access_body(access_nfts[key], tourist_wallet,
                                       zone_id, clock)
         IN
         /\ Len(nft_events) < MaxNftEvents
         /\ nft_events' = Append(nft_events, out.event)
         /\ access_nfts' = [access_nfts EXCEPT ![key].is_valid = ~out.ret]
         /\ result' = [res EXCEPT !.ret = out.ret]
         /\ UNCHANGED <<program_config, alert_vars, clock>>

verify_access(key, tourist_wallet, zone_id) ==
    LET acc == VerifyAccess(key, tourist_wallet, zone_id)
        res == Result("verify_access", "-", key, acc)
    IN
    IF acc # "Ok"
    THEN /\ result' = res
         /\ UNCHANGED <<alert_vars, nft_vars, clock>>
    ELSE LET out == verify_access_body(access_nfts[key], tourist_wallet,
                                       zone_id, clock)
         IN
         /\ Len(nft_events) < MaxNftEvents
         /\ nft_events' = Append(nft_events, out.event)
         /\ result' = [res EXCEPT !.ret = out.ret]
         /\ UNCHANGED <<program_config, access_nfts, alert_vars, clock>>

\* RevokePass without the authority constraint on program_config.
RevokePass_noconstraint(authority, key) ==
    IF key \notin DOMAIN access_nfts THEN "AccountNotInitialized"
    ELSE IF program_config = NoAccount THEN "AccountNotInitialized"
    ELSE "Ok"

\* #[derive(Accounts)] RevokePass: the pass and the config must exist, and the
\* config's `constraint` names the signer as its authority.
RevokePass(authority, key) ==
    IF key \notin DOMAIN access_nfts THEN "AccountNotInitialized"
    ELSE IF program_config = NoAccount THEN "AccountNotInitialized"
    ELSE IF ~(program_config.authority = authority) THEN "ConstraintRaw"
    ELSE "Ok"

\* revoke_pass without require!(access_nft.is_valid, ..).
revoke_pass_body_norequire(access_nft, authority, now) ==
    [code |-> "Ok",
     access_nft |-> [access_nft EXCEPT !.is_valid = FALSE],
     event |-> [name |-> "PassRevoked", nft_id |-> access_nft.nft_id,
                tourist_wallet |-> access_nft.tourist_wallet,
                zone_id |-> access_nft.zone_id,
                revoked_by |-> authority, revoked_at |-> now]]

\* revoke_pass as a toggle: no is_valid check, the flag is flipped.
revoke_pass_body_toggle(access_nft, authority, now) ==
    [code |-> "Ok",
     access_nft |-> [access_nft EXCEPT !.is_valid = ~access_nft.is_valid],
     event |-> [name |-> "PassRevoked", nft_id |-> access_nft.nft_id,
                tourist_wallet |-> access_nft.tourist_wallet,
                zone_id |-> access_nft.zone_id,
                revoked_by |-> authority, revoked_at |-> now]]

\* The handler of revoke_pass on the validated accounts.
revoke_pass_body(access_nft, authority, now) ==
    IF ~access_nft.is_valid
    THEN [code |-> "PassAlreadyRevoked"]
    ELSE [code |-> "Ok",
          access_nft |-> [access_nft EXCEPT !.is_valid = FALSE],
          event |-> [name |-> "PassRevoked", nft_id |-> access_nft.nft_id,
                     tourist_wallet |-> access_nft.tourist_wallet,
                     zone_id |-> access_nft.zone_id,
                     revoked_by |-> authority, revoked_at |-> now]]

revoke_pass(authority, key) ==
    LET acc == RevokePass(authority, key) IN
    IF acc # "Ok"
    THEN /\ result' = Result("revoke_pass", authority, key, acc)
         /\ UNCHANGED <<alert_vars, nft_vars, clock>>
    ELSE LET out == revoke_pass_body(access_nfts[key], authority, clock) IN
         IF out.code # "Ok"
         THEN /\ result' = Result("revoke_pass", authority, key, out.code)
              /\ UNCHANGED <<alert_vars, nft_vars, clock>>
         ELSE /\ Len(nft_events) < MaxNftEvents
              /\ access_nfts' = [access_nfts EXCEPT ![key] = out.access_nft]
              /\ nft_events' = Append(nft_events, out.event)
              /\ result' = Result("revoke_pass", authority, key, "Ok")
              /\ UNCHANGED <<program_config, alert_vars, clock>>

\* #[derive(Accounts)] UpdateMetadata: as RevokePass.
UpdateMetadata(authority, key) ==
    IF key \notin DOMAIN access_nfts THEN "AccountNotInitialized"
    ELSE IF program_config = NoAccount THEN "AccountNotInitialized"
    ELSE IF ~(program_config.authority = authority) THEN "ConstraintRaw"
    ELSE "Ok"

\* update_metadata that also sets is_valid back to true.
update_metadata_body_revalidate(access_nft, new_metadata_uri, now) ==
    [code |-> "Ok",
     access_nft |-> [access_nft EXCEPT !.metadata_uri = new_metadata_uri,
                                       !.is_valid = TRUE],
     event |-> [name |-> "MetadataUpdated", nft_id |-> access_nft.nft_id,
                new_metadata_uri |-> new_metadata_uri, updated_at |-> now]]

\* The handler of update_metadata on the validated accounts.
update_metadata_body(access_nft, new_metadata_uri, now) ==
    [code |-> "Ok",
     access_nft |-> [access_nft EXCEPT !.metadata_uri = new_metadata_uri],
     event |-> [name |-> "MetadataUpdated", nft_id |-> access_nft.nft_id,
                new_metadata_uri |-> new_metadata_uri, updated_at |-> now]]

update_metadata(authority, key, new_metadata_uri) ==
    LET acc == UpdateMetadata(authority, key)
        res == Result("update_metadata", authority, key, acc)
    IN
    IF acc # "Ok"
    THEN /\ result' = res
         /\ UNCHANGED <<alert_vars, nft_vars, clock>>
    ELSE LET out == update_metadata_body(access_nfts[key], new_metadata_uri, clock)
         IN
         /\ Len(nft_events) < MaxNftEvents
         /\ access_nfts' = [access_nfts EXCEPT ![key] = out.access_nft]
         /\ nft_events' = Append(nft_events, out.event)
         /\ result' = res
         /\ UNCHANGED <<program_config, alert_vars, clock>>

----------------------------------------------------------------------------
\* The Clock sysvar: unix_timestamp never decreases.
Tick ==
    /\ clock < MaxTime
    /\ clock' = clock + 1
    /\ UNCHANGED <<alert_vars, nft_vars, result>>

Init ==
    /\ emergency_alert = NoAccount
    /\ alerts = <<>>
    /\ contacts = <<>>
    /\ alert_events = <<>>
    /\ program_config = NoAccount
    /\ access_nfts = <<>>
    /\ nft_events = <<>>
    /\ clock = 0
    /\ result = Result("none", "-", 0, "Ok")

\* The instructions of emergency-alert, by any signer. The program only
\* records the clock (Alert.timestamp, AlertResolved.resolved_at) and never
\* compares it, so SpecAlert leaves the clock where Init puts it.
NextAlert ==
    \/ \E a \in Identities : initialize(a)
    \/ \E t \in Identities, ty \in AlertTypes,
          l \in Locations, d \in Descriptions :
          /\ trigger_alert(t, ty, l, d)
          /\ DOMAIN alerts' \subseteq WideAlertKeys
    \/ \E t \in Identities, k \in WideAlertKeys : resolve_alert(t, k)
    \/ \E a \in Identities, ct \in ContactTypes, ca \in ContactAddresses :
          add_emergency_contact(a, ct, ca)

SpecAlert == Init /\ [][NextAlert]_vars

\* The instructions of temporary-access-nft and the passing of time. The two
\* programs share no account, so each is explored on its own.
NextNft ==
    \/ \E a \in (IF program_config = NoAccount THEN Authorities ELSE Identities) :
          nft_initialize(a)
    \/ \E t \in Tourists, h \in Hashes, z \in MintZones, e \in Expiries(clock),
          u \in MintUris :
          /\ mint_access_nft(t, h, z, e, u)
          /\ DOMAIN access_nfts' \subseteq WideNftKeys
    \/ \E k \in WideNftKeys, w \in Identities, z \in Zones :
          verify_access(k, w, z)
    \/ \E a \in Identities, k \in WideNftKeys : revoke_pass(a, k)
    \/ \E a \in Identities, k \in WideNftKeys, u \in Uris :
          update_metadata(a, k, u)
    \/ Tick

SpecNft == Init /\ [][NextNft]_vars

\* Both programs with several records each. The programs share no account
\* and neither invokes the other, so a behaviour of the pair is a behaviour
\* of each on its own accounts: a run executes the instructions of the
\* program it initialized first. Fewer inputs per record than in SpecAlert
\* and SpecNft, and no passing of time.
NextPrograms ==
    \/ /\ program_config = NoAccount
       /\ \E a \in (IF emergency_alert = NoAccount THEN Authorities
                     ELSE Identities) : initialize(a)
    \/ /\ program_config = NoAccount
       /\ \E t \in Tourists, ty \in FewAlertTypes,
             l \in Locations, d \in Descriptions : trigger_alert(t, ty, l, d)
    \/ /\ program_config = NoAccount
       /\ \E t \in Identities, k \in AlertKeys : resolve_alert(t, k)
    \/ /\ program_config = NoAccount
       /\ \E a \in Identities, ct \in ContactTypes, ca \in ContactAddresses :
             add_emergency_contact(a, ct, ca)
    \/ /\ emergency_alert = NoAccount
       /\ \E a \in (IF program_config = NoAccount THEN Authorities
                     ELSE Identities) : nft_initialize(a)
    \/ /\ emergency_alert = NoAccount
       /\ \E t \in Tourists, h \in Hashes, z \in MintZones,
             e \in Expiries(clock), u \in MintUris :
             mint_access_nft(t, h, z, e, u)
    \/ /\ emergency_alert = NoAccount
       /\ \E k \in NftKeys, w \in Tourists, z \in Zones :
             verify_access(k, w, z)
    \/ /\ emergency_alert = NoAccount
       /\ \E a \in Identities, k \in NftKeys : revoke_pass(a, k)
    \/ /\ emergency_alert = NoAccount
       /\ \E a \in Identities, k \in NftKeys, u \in Uris :
             update_metadata(a, k, u)

SpecPrograms == Init /\ [][NextPrograms]_vars

----------------------------------------------------------------------------
\* Properties of programs/emergency-alert, checked under SpecAlert.

\* Sequence s is a prefix of sequence t.
IsPrefix(s, t) ==
    /\ Len(s) <= Len(t)
    /\ SubSeq(t, 1, Len(s)) = s

\* The AlertResolved events emitted for alert k.
ResolvedEvents(k) ==
    {i \in 1..Len(alert_events) :
        /\ alert_events[i].name = "AlertResolved"
        /\ alert_events[i].alert_id = k}

\* The instruction that took this step was resolve_alert on an existing alert.
ResolveStep ==
    /\ result'.op = "resolve_alert"
    /\ result'.key \in DOMAIN alerts

\* `who` is the reporter of alert k or the authority of the registry.
Authorized(who, k) ==
    \/ who = alerts[k].tourist
    \/ who = emergency_alert.authority

\* C1: once an alert's is_active is false it is false in every later state;
\* no instruction removes the alert or sets is_active back to true.
C1_ActiveNeverReverts ==
    [][\A k \in DOMAIN alerts :
          ~alerts[k].is_active =>
              /\ k \in DOMAIN alerts'
              /\ ~alerts'[k].is_active]_vars

\* C1 witness: an alert is resolved and a later instruction has run.
C1_Witness ==
    /\ \E k \in DOMAIN alerts : ~alerts[k].is_active
    /\ result.op = "add_emergency_contact"
    /\ result.code = "Ok"

\* C2: resolve_alert by the alert's reporter succeeds on the active alert and
\* sets is_active = false; on the resolved alert it fails with
\* AlertAlreadyResolved and changes no alert, not the counter and not the log.
C2_ReporterResolvesOnce ==
    [][(ResolveStep /\ result'.caller = alerts[result'.key].tourist) =>
          IF alerts[result'.key].is_active
          THEN /\ result'.code = "Ok"
               /\ ~alerts'[result'.key].is_active
          ELSE /\ result'.code = "AlertAlreadyResolved"
               /\ UNCHANGED <<emergency_alert, alerts, contacts, alert_events>>]_vars

\* C2 witness: the reporter called resolve_alert on its resolved alert.
C2_Witness ==
    /\ result.op = "resolve_alert"
    /\ result.code = "AlertAlreadyResolved"
    /\ result.caller = alerts[result.key].tourist

\* The last instruction was resolve_alert on an existing alert by an identity
\* that is neither its reporter nor the authority.
OutsiderResolve ==
    /\ result.op = "resolve_alert"
    /\ result.key \in DOMAIN alerts
    /\ ~Authorized(result.caller, result.key)

\* C3 as stated: such a call fails with Unauthorized, whatever the alert's state.
C3_OutsiderAlwaysUnauthorized ==
    OutsiderResolve => result.code = "Unauthorized"

\* C3 amended: such a call always fails, with Unauthorized while the alert is
\* active and with AlertAlreadyResolved once it is resolved.
C3_OutsiderAlwaysFails ==
    OutsiderResolve =>
        result.code = IF alerts[result.key].is_active
                      THEN "Unauthorized"
                      ELSE "AlertAlreadyResolved"

\* C3 witness: an outsider called resolve_alert on a resolved alert.
C3_Witness ==
    /\ OutsiderResolve
    /\ ~alerts[result.key].is_active

\* Every AlertResolved event names the reporter or the authority, and every
\* resolved alert has such an event.
C4_ResolvedByAuthorized ==
    /\ \A i \in 1..Len(alert_events) :
          alert_events[i].name = "AlertResolved" =>
              /\ alert_events[i].alert_id \in DOMAIN alerts
              /\ Authorized(alert_events[i].tourist, alert_events[i].alert_id)
    /\ \A k \in DOMAIN alerts :
          ~alerts[k].is_active => ResolvedEvents(k) # {}

\* C4: resolve_alert on an active alert succeeds iff the caller is the reporter
\* or the authority; every AlertResolved event names such a caller and every
\* resolved alert has such an event.
C4_ResolveIffAuthorized ==
    /\ []C4_ResolvedByAuthorized
    /\ [][(ResolveStep /\ alerts[result'.key].is_active) =>
             (result'.code = "Ok" <=> Authorized(result'.caller, result'.key))]_vars

\* C4 witness: the authority, who is not the reporter, resolved an alert.
C4_Witness ==
    /\ result.op = "resolve_alert"
    /\ result.code = "Ok"
    /\ result.caller = emergency_alert.authority
    /\ result.caller # alerts[result.key].tourist

\* An alert has one AlertResolved event when resolved and none while active.
C5_OneEventPerAlert ==
    \A k \in DOMAIN alerts :
        Cardinality(ResolvedEvents(k)) = IF alerts[k].is_active THEN 0 ELSE 1

\* C5: of the resolve_alert calls of authorized callers on one alert, in any
\* interleaving, exactly one succeeds: a call that finds is_active = false
\* fails with AlertAlreadyResolved and emits nothing, so each alert has one
\* AlertResolved event when resolved and none while active.
C5_RaceOneWinner ==
    /\ []C5_OneEventPerAlert
    /\ [][(/\ ResolveStep
           /\ Authorized(result'.caller, result'.key)
           /\ ~alerts[result'.key].is_active) =>
             /\ result'.code = "AlertAlreadyResolved"
             /\ alert_events' = alert_events]_vars

\* C5 witness: reporter and authority both called resolve_alert; one resolved
\* the alert, the other then failed with AlertAlreadyResolved.
C5_Witness ==
    /\ result.op = "resolve_alert"
    /\ result.code = "AlertAlreadyResolved"
    /\ Authorized(result.caller, result.key)
    /\ \E i \in ResolvedEvents(result.key) :
          /\ alert_events[i].tourist # result.caller
          /\ Authorized(alert_events[i].tourist, result.key)

\* What a trigger_alert step does on an initialized registry, by the
\* alert_type it was given.
C15_TriggerStep ==
    (result'.op = "trigger_alert" /\ emergency_alert # NoAccount) =>
        IF result'.arg \in {0, 1, 2}
        THEN /\ result'.code = "Ok"
             /\ result'.key = emergency_alert.alert_counter
             /\ DOMAIN alerts' = DOMAIN alerts \cup {result'.key}
             /\ alerts'[result'.key].alert_id = emergency_alert.alert_counter
             /\ alerts'[result'.key].tourist = result'.caller
             /\ alerts'[result'.key].alert_type = result'.arg
             /\ alerts'[result'.key].is_active
             /\ emergency_alert'.alert_counter =
                    emergency_alert.alert_counter + 1
             /\ Len(alert_events') = Len(alert_events) + 1
             /\ SubSeq(alert_events', 1, Len(alert_events)) = alert_events
             /\ alert_events'[Len(alert_events')].name = "AlertTriggered"
             /\ alert_events'[Len(alert_events')].alert_id =
                    emergency_alert.alert_counter
             /\ alert_events'[Len(alert_events')].tourist = result'.caller
        ELSE /\ result'.code = "InvalidAlertType"
             /\ UNCHANGED <<emergency_alert, alerts, contacts, alert_events>>

\* C15: on an initialized registry trigger_alert with alert_type 0, 1 or 2
\* succeeds for any signer: it creates the alert with alert_id = the counter
\* before the call, tourist = the signer and is_active = true, adds one to the
\* counter and emits AlertTriggered with that alert_id; with any other
\* alert_type it fails with InvalidAlertType.
C15_TriggerAlert ==
    [][C15_TriggerStep]_vars

\* C15 witness: a signer who is not the authority triggered a PANIC alert
\* (alert_type 0).
C15_Witness ==
    /\ result.op = "trigger_alert"
    /\ result.code = "Ok"
    /\ result.arg = 0
    /\ result.caller # emergency_alert.authority
    /\ alerts[result.key].alert_type = 0

----------------------------------------------------------------------------
\* Properties of programs/temporary-access-nft, checked under SpecNft.
\* Anchor reports a violated `constraint = ..` that names no error as
\* ConstraintRaw; on RevokePass and UpdateMetadata the only such constraint is
\* program_config.authority == authority.key(), the spec's Unauthorized.

\* The instruction that took this step was `op` (Tick leaves result alone).
NftStep(op) ==
    /\ result'.op = op
    /\ clock' = clock

\* What a mint_access_nft step does on an initialized registry, by the
\* expiry_timestamp it was given.
C6_MintStep ==
    (NftStep("mint_access_nft") /\ program_config # NoAccount) =>
        IF result'.arg <= clock
        THEN /\ result'.code = "InvalidExpiryTime"
             /\ UNCHANGED <<program_config, access_nfts, nft_events>>
        ELSE /\ result'.code = "Ok"
             /\ result'.key = program_config.nft_counter
             /\ result'.key \notin DOMAIN access_nfts
             /\ DOMAIN access_nfts' = DOMAIN access_nfts \cup {result'.key}
             /\ access_nfts'[result'.key].is_valid
             /\ access_nfts'[result'.key].minted_at = clock
             /\ access_nfts'[result'.key].tourist_wallet = result'.caller
             /\ access_nfts'[result'.key].expiry_timestamp = result'.arg

\* Every pass expires after it was minted.
C6_ExpiryAfterMint ==
    \A k \in DOMAIN access_nfts :
        access_nfts[k].expiry_timestamp > access_nfts[k].minted_at

\* C6: on an initialized registry mint_access_nft fails with InvalidExpiryTime
\* for every expiry_timestamp <= now, creating no record, leaving the counter
\* and emitting nothing; for every expiry_timestamp > now it succeeds and the
\* new record has is_valid, minted_at = now and tourist_wallet = the signer.
\* So every record has expiry_timestamp > minted_at.
C6_MintExpiry ==
    /\ [][C6_MintStep]_vars
    /\ []C6_ExpiryAfterMint

\* C6 witness: a pass was minted after the clock had advanced.
C6_Witness ==
    /\ result.op = "mint_access_nft"
    /\ result.code = "Ok"
    /\ clock > 0
    /\ access_nfts[result.key].minted_at = clock

\* C7 as stated: on every existing pass and for every (tourist_wallet, zone_id)
\* verify_access returns a bool, true iff is_valid, the wallet matches, the
\* zone matches and now < expiry_timestamp.
C7_VerifyIsConjunction ==
    [][\A k \in DOMAIN access_nfts, w \in Identities, z \in Zones :
          verify_access(k, w, z) =>
              /\ result'.code = "Ok"
              /\ result'.ret <=> (/\ access_nfts[k].is_valid
                                  /\ access_nfts[k].tourist_wallet = w
                                  /\ access_nfts[k].zone_id = z
                                  /\ clock < access_nfts[k].expiry_timestamp)]_vars

\* C8 as stated: every verify_access call on an existing pass appends exactly
\* one AccessVerified event carrying the result.
C8_VerifyAlwaysEmits ==
    [][(NftStep("verify_access") /\ result'.key \in DOMAIN access_nfts) =>
          /\ Len(nft_events') = Len(nft_events) + 1
          /\ SubSeq(nft_events', 1, Len(nft_events)) = nft_events
          /\ nft_events'[Len(nft_events')].name = "AccessVerified"
          /\ nft_events'[Len(nft_events')].nft_id = result'.key
          /\ nft_events'[Len(nft_events')].is_valid = result'.ret]_vars

\* The instruction that took this step was revoke_pass on an existing pass.
RevokeStep ==
    /\ NftStep("revoke_pass")
    /\ result'.key \in DOMAIN access_nfts

\* A revoke_pass by the authority on a valid pass succeeds and clears is_valid.
C9_FirstRevoke ==
    (RevokeStep /\ access_nfts[result'.key].is_valid
                /\ result'.caller = program_config.authority) =>
        /\ result'.code = "Ok"
        /\ ~access_nfts'[result'.key].is_valid

\* is_valid never returns to true.
C9_ValidNeverReverts ==
    \A k \in DOMAIN access_nfts :
        ~access_nfts[k].is_valid =>
            /\ k \in DOMAIN access_nfts'
            /\ ~access_nfts'[k].is_valid

C10_NonAuthorityStep ==
    (/\ (NftStep("revoke_pass") \/ NftStep("update_metadata"))
     /\ result'.key \in DOMAIN access_nfts) =>
        IF result'.caller = program_config.authority
        THEN result'.code \in {"Ok", "PassAlreadyRevoked"}
        ELSE /\ result'.code = "ConstraintRaw"
             /\ UNCHANGED <<program_config, access_nfts, nft_events>>

\* Every PassRevoked event names the authority as revoked_by.
C10_RevokedByAuthority ==
    \A i \in 1..Len(nft_events) :
        nft_events[i].name = "PassRevoked" =>
            nft_events[i].revoked_by = program_config.authority

\* C10: revoke_pass and update_metadata on an existing pass succeed only for
\* the authority; a call by anyone else (the holder included) fails on the
\* authority constraint and changes neither is_valid nor metadata_uri nor the
\* log; every PassRevoked event names the authority as revoked_by.
C10_AuthorityOnly ==
    /\ [][C10_NonAuthorityStep]_vars
    /\ []C10_RevokedByAuthority

\* C10 witness: the holder, who is not the authority, called revoke_pass on
\* its own pass.
C10_Witness ==
    /\ result.op = "revoke_pass"
    /\ result.code = "ConstraintRaw"
    /\ result.key \in DOMAIN access_nfts
    /\ result.caller = access_nfts[result.key].tourist_wallet
    /\ access_nfts[result.key].is_valid

\* What verify_access(k, w, z) gives in the current state: its error code,
\* or Ok and the bool it returns.
VerifyOutcome(k, w, z) ==
    LET acc == VerifyAccess(k, w, z) IN
    IF acc # "Ok"
    THEN [code |-> acc, ret |-> FALSE]
    ELSE [code |-> "Ok",
          ret |-> verify_access_is_valid(access_nfts[k], w, z, clock)]

\* What a verify_access step leaves and changes: what it returned is the
\* outcome for some wallet w and zone z, and for every w and z the outcome on
\* that pass is the same after the step as before it.
C16_VerifyStep ==
    NftStep("verify_access") =>
        /\ UNCHANGED <<program_config, access_nfts, clock>>
        /\ UNCHANGED <<emergency_alert, alerts, contacts, alert_events>>
        /\ IsPrefix(nft_events, nft_events')
        /\ Len(nft_events') <= Len(nft_events) + 1
        /\ \A k \in {result'.key}, w \in Identities, z \in Zones :
              VerifyOutcome(k, w, z)' = VerifyOutcome(k, w, z)
        /\ \E k \in {result'.key}, w \in Identities, z \in Zones :
              /\ result'.code = VerifyOutcome(k, w, z).code
              /\ result'.ret = VerifyOutcome(k, w, z).ret

\* C16: verify_access changes no state but the log: after any call, whatever
\* it returned, every pass (is_valid and metadata_uri included) and the
\* config's authority and counter are as before, so the same call at the same
\* time gives the same result.
C16_VerifyChangesNothing ==
    [][C16_VerifyStep]_vars

\* C16 witness: verify_access returned true twice in a row on one pass at one
\* time.
C16_Witness ==
    /\ result.op = "verify_access"
    /\ result.code = "Ok"
    /\ result.ret
    /\ Len(nft_events) >= 2
    /\ nft_events[Len(nft_events)].name = "AccessVerified"
    /\ nft_events[Len(nft_events) - 1] = nft_events[Len(nft_events)]
    /\ nft_events[Len(nft_events)].is_valid

\* What an update_metadata(a, k, u) step by the authority does on an existing
\* pass.
C17_UpdateStep ==
    (/\ NftStep("update_metadata")
     /\ result'.key \in DOMAIN access_nfts
     /\ program_config # NoAccount
     /\ result'.caller = program_config.authority) =>
        \A u \in Uris :
            update_metadata(result'.caller, result'.key, u) =>
                /\ result'.code = "Ok"
                /\ access_nfts' =
                       [access_nfts EXCEPT ![result'.key].metadata_uri = u]
                /\ access_nfts'[result'.key].is_valid =
                       access_nfts[result'.key].is_valid
                /\ access_nfts'[result'.key].expiry_timestamp =
                       access_nfts[result'.key].expiry_timestamp
                /\ access_nfts'[result'.key].tourist_wallet =
                       access_nfts[result'.key].tourist_wallet
                /\ access_nfts'[result'.key].zone_id =
                       access_nfts[result'.key].zone_id
                /\ UNCHANGED <<program_config, clock>>
                /\ \A k2 \in NftKeys, w2 \in Identities, z2 \in Zones :
                      VerifyOutcome(k2, w2, z2)' = VerifyOutcome(k2, w2, z2)

\* C17: update_metadata by the authority succeeds on an existing pass whether
\* the pass is valid, revoked or expired, and any number of times; each call
\* changes only metadata_uri, to the uri given, and leaves is_valid,
\* expiry_timestamp, tourist_wallet, zone_id and what verify_access returns
\* as they were.
C17_UpdateOnlyMetadata ==
    [][C17_UpdateStep]_vars

\* C17 witness: the authority updated the metadata of an expired pass twice
\* in a row.
C17_Witness ==
    /\ result.op = "update_metadata"
    /\ result.code = "Ok"
    /\ access_nfts[result.key].expiry_timestamp <= clock
    /\ access_nfts[result.key].metadata_uri \in Uris
    /\ Len(nft_events) >= 2
    /\ nft_events[Len(nft_events)].name = "MetadataUpdated"
    /\ nft_events[Len(nft_events) - 1].name = "MetadataUpdated"
    /\ nft_events[Len(nft_events) - 1].nft_id = result.key

\* The positions of the AccessVerified events in the log.
VerifiedEvents ==
    {i \in 1..Len(nft_events) : nft_events[i].name = "AccessVerified"}

\* In the log, a verify_access that returned false is never followed by one
\* with the same pass, wallet and zone that returned true.
C18_FalseStaysFalse ==
    \A i, j \in VerifiedEvents :
        (/\ i < j
         /\ nft_events[i].nft_id = nft_events[j].nft_id
         /\ nft_events[i].tourist_wallet = nft_events[j].tourist_wallet
         /\ nft_events[i].zone_id = nft_events[j].zone_id
         /\ ~nft_events[i].is_valid) => ~nft_events[j].is_valid

\* verify_access answers only for a pass's own wallet and zone (VerifyAccess
\* rejects any other), so these are the arguments of a call that returned
\* false. A step never takes that answer from false to anything else, and
\* never takes a pass from revoked or expired back.
C18_ValidityStep ==
    /\ clock' >= clock
    /\ \A k \in DOMAIN access_nfts :
          /\ ~VerifyOutcome(k, access_nfts[k].tourist_wallet,
                            access_nfts[k].zone_id).ret =>
                VerifyOutcome(k, access_nfts[k].tourist_wallet,
                              access_nfts[k].zone_id)' =
                    [code |-> "Ok", ret |-> FALSE]
          /\ ~(access_nfts[k].is_valid /\ clock < access_nfts[k].expiry_timestamp) =>
                /\ k \in DOMAIN access_nfts'
                /\ ~(/\ access_nfts'[k].is_valid
                      /\ clock' < access_nfts'[k].expiry_timestamp)

\* C18: the clock never decreases, and effective validity (is_valid and
\* now < expiry_timestamp) is monotone: once verify_access on a pass, wallet
\* and zone has returned false, because the pass was revoked or had expired,
\* no later verify_access with the same arguments returns true, whatever
\* instructions run in between.
C18_ValidityMonotone ==
    /\ []C18_FalseStaysFalse
    /\ [][C18_ValidityStep]_vars

\* C18 witness: verify_access returned false on an expired pass, and the same
\* call was made again later.
C18_Witness ==
    /\ result.op = "verify_access"
    /\ result.code = "Ok"
    /\ ~result.ret
    /\ access_nfts[result.key].expiry_timestamp <= clock
    /\ \E i, j \in VerifiedEvents :
          /\ i < j
          /\ j = Len(nft_events)
          /\ nft_events[i].nft_id = nft_events[j].nft_id
          /\ nft_events[i].tourist_wallet = nft_events[j].tourist_wallet
          /\ nft_events[i].zone_id = nft_events[j].zone_id
          /\ ~nft_events[i].is_valid

----------------------------------------------------------------------------
\* Properties of both programs, checked under SpecPrograms.

\* The counter of each registry; 0 while the config does not exist.
AlertCounter ==
    IF emergency_alert = NoAccount THEN 0 ELSE emergency_alert.alert_counter

NftCounter ==
    IF program_config = NoAccount THEN 0 ELSE program_config.nft_counter

\* The positions of the creation events in each log.
TriggeredEvents ==
    {i \in 1..Len(alert_events) : alert_events[i].name = "AlertTriggered"}

MintedEvents ==
    {i \in 1..Len(nft_events) : nft_events[i].name = "AccessNftMinted"}

\* No two records of a family share an id, and the ids in the creation events
\* increase strictly along each log.
C11_IdsDistinct ==
    /\ \A j, k \in DOMAIN alerts :
          j # k => alerts[j].alert_id # alerts[k].alert_id
    /\ \A j, k \in DOMAIN access_nfts :
          j # k => access_nfts[j].nft_id # access_nfts[k].nft_id
    /\ \A i, j \in TriggeredEvents :
          i < j => alert_events[i].alert_id < alert_events[j].alert_id
    /\ \A i, j \in MintedEvents :
          i < j => nft_events[i].nft_id < nft_events[j].nft_id

\* A step never lowers a counter; a creation takes an address that holds no
\* record, gives the record an id above every existing one and leaves every
\* existing record as it was.
C11_CreationStep ==
    /\ AlertCounter' >= AlertCounter
    /\ NftCounter' >= NftCounter
    /\ (result'.op = "trigger_alert" /\ result'.code = "Ok") =>
          /\ result'.key \notin DOMAIN alerts
          /\ \A k \in DOMAIN alerts :
                /\ k \in DOMAIN alerts'
                /\ alerts'[k] = alerts[k]
                /\ alerts[k].alert_id < alerts'[result'.key].alert_id
    /\ (result'.op = "mint_access_nft" /\ result'.code = "Ok") =>
          /\ result'.key \notin DOMAIN access_nfts
          /\ \A k \in DOMAIN access_nfts :
                /\ k \in DOMAIN access_nfts'
                /\ access_nfts'[k] = access_nfts[k]
                /\ access_nfts[k].nft_id < access_nfts'[result'.key].nft_id

\* C11: in each registry the ids given to new records increase strictly in
\* creation order and never repeat, whoever the callers are: no two records of
\* a family share an id, the counter never decreases and no creation
\* overwrites an existing record.
C11_IdsIncrease ==
    /\ []C11_IdsDistinct
    /\ [][C11_CreationStep]_vars

\* C11 witness: two alerts triggered by different callers exist.
C11_Witness ==
    /\ result.op = "trigger_alert"
    /\ result.code = "Ok"
    /\ \E j, k \in DOMAIN alerts : alerts[j].tourist # alerts[k].tourist

\* The instructions of each program that write an account.
AlertMutatingOps ==
    {"initialize", "trigger_alert", "resolve_alert", "add_emergency_contact"}

NftMutatingOps ==
    {"nft_initialize", "mint_access_nft", "revoke_pass", "update_metadata"}

\* C12 as stated: every successful mutating instruction (initialize of either
\* registry, trigger_alert, resolve_alert, mint_access_nft, revoke_pass,
\* update_metadata) appends exactly one event to its program's log, and every
\* earlier log is a prefix of every later one.
C12_OneEventPerMutation ==
    [][/\ IsPrefix(alert_events, alert_events')
       /\ IsPrefix(nft_events, nft_events')
       /\ (result'.code = "Ok" /\ result'.op \in AlertMutatingOps) =>
             /\ Len(alert_events') = Len(alert_events) + 1
             /\ nft_events' = nft_events
       /\ (result'.code = "Ok" /\ result'.op \in NftMutatingOps) =>
             /\ Len(nft_events') = Len(nft_events) + 1
             /\ alert_events' = alert_events]_vars

\* What a step whose instruction returned an error leaves behind.
C13_FailedStep ==
    (result'.code # "Ok") =>
        /\ UNCHANGED <<emergency_alert, alerts, contacts, alert_events>>
        /\ UNCHANGED <<program_config, access_nfts, nft_events>>
        /\ (result'.code = "InvalidAlertType") =>
              /\ AlertCounter' = AlertCounter
              /\ AlertCounter \notin DOMAIN alerts'
        /\ (result'.code = "InvalidExpiryTime") =>
              /\ NftCounter' = NftCounter
              /\ NftCounter \notin DOMAIN access_nfts'

\* C13: an instruction that returns an error has no partial effect: both
\* configs (authority, counter), every alert, contact and pass and both logs
\* are the same before and after the call. A trigger_alert rejected for its
\* category and a mint_access_nft rejected for its expiry leave no record at
\* the address derived from the counter and do not advance the counter.
C13_ErrorsChangeNothing ==
    [][C13_FailedStep]_vars

\* C13 witness: trigger_alert was rejected for its category on a registry
\* that already holds an alert.
C13_Witness ==
    /\ result.op = "trigger_alert"
    /\ result.code = "InvalidAlertType"
    /\ result.arg > 2
    /\ alerts # <<>>
    /\ result.key = emergency_alert.alert_counter
    /\ result.key \notin DOMAIN alerts

\* What initialize of emergency-alert does, by whether the config exists.
C14_AlertInitialize ==
    (result'.op = "initialize") =>
        IF emergency_alert = NoAccount
        THEN /\ result'.code = "Ok"
             /\ emergency_alert' # NoAccount
             /\ emergency_alert'.authority = result'.caller
             /\ emergency_alert'.alert_counter = 0
        ELSE /\ result'.code = "AlreadyInUse"
             /\ UNCHANGED <<alert_vars, nft_vars>>

\* What initialize of temporary-access-nft does, likewise.
C14_NftInitialize ==
    (result'.op = "nft_initialize") =>
        IF program_config = NoAccount
        THEN /\ result'.code = "Ok"
             /\ program_config' # NoAccount
             /\ program_config'.authority = result'.caller
             /\ program_config'.nft_counter = 0
        ELSE /\ result'.code = "AlreadyInUse"
             /\ UNCHANGED <<alert_vars, nft_vars>>

\* An existing config stays, keeps its authority, and its counter changes
\* only by one, in the instruction that creates the record at that key.
C14_ConfigKept ==
    /\ (emergency_alert # NoAccount) =>
          /\ emergency_alert' # NoAccount
          /\ emergency_alert'.authority = emergency_alert.authority
          /\ (emergency_alert'.alert_counter # emergency_alert.alert_counter) =>
                /\ result'.op = "trigger_alert"
                /\ result'.code = "Ok"
                /\ emergency_alert'.alert_counter =
                       emergency_alert.alert_counter + 1
                /\ DOMAIN alerts' =
                       DOMAIN alerts \cup {emergency_alert.alert_counter}
    /\ (program_config # NoAccount) =>
          /\ program_config' # NoAccount
          /\ program_config'.authority = program_config.authority
          /\ (program_config'.nft_counter # program_config.nft_counter) =>
                /\ result'.op = "mint_access_nft"
                /\ result'.code = "Ok"
                /\ program_config'.nft_counter = program_config.nft_counter + 1
                /\ DOMAIN access_nfts' =
                       DOMAIN access_nfts \cup {program_config.nft_counter}

\* C14: in each registry initialize succeeds iff the config does not exist
\* yet, and sets authority = the signer and the counter to 0; every later
\* initialize, by any signer, fails on the occupied address and changes
\* nothing. Afterwards the authority never changes and the counter changes
\* only by record creation, never back to 0.
C14_InitializeOnce ==
    /\ [][C14_AlertInitialize]_vars
    /\ [][C14_NftInitialize]_vars
    /\ [][C14_ConfigKept]_vars

\* C14 witness: after an alert was created, a signer other than the authority
\* called initialize again and failed.
C14_Witness ==
    /\ result.op = "initialize"
    /\ result.code = "AlreadyInUse"
    /\ result.caller # emergency_alert.authority
    /\ emergency_alert.alert_counter > 0

\* Every record holds the values its creation event carries.
C19_CreationValues ==
    /\ \A k \in DOMAIN alerts :
          \E i \in TriggeredEvents :
              /\ alert_events[i].alert_id = k
              /\ alerts[k].alert_id = k
              /\ alerts[k].tourist = alert_events[i].tourist
              /\ alerts[k].alert_type = alert_events[i].alert_type
              /\ alerts[k].location = alert_events[i].location
              /\ alerts[k].description = alert_events[i].description
              /\ alerts[k].timestamp = alert_events[i].timestamp
    /\ \A k \in DOMAIN access_nfts :
          \E i \in MintedEvents :
              /\ nft_events[i].nft_id = k
              /\ access_nfts[k].nft_id = k
              /\ access_nfts[k].tourist_id_hash = nft_events[i].tourist_id_hash
              /\ access_nfts[k].zone_id = nft_events[i].zone_id
              /\ access_nfts[k].expiry_timestamp = nft_events[i].expiry_timestamp
              /\ access_nfts[k].tourist_wallet = nft_events[i].tourist_wallet
              /\ access_nfts[k].minted_at = nft_events[i].minted_at

\* What a step may do to the existing alerts.
C19_AlertStep ==
    /\ \A k \in DOMAIN alerts :
          /\ k \in DOMAIN alerts'
          /\ alerts'[k].alert_id = alerts[k].alert_id
          /\ alerts'[k].tourist = alerts[k].tourist
          /\ alerts'[k].alert_type = alerts[k].alert_type
          /\ alerts'[k].location = alerts[k].location
          /\ alerts'[k].description = alerts[k].description
          /\ alerts'[k].timestamp = alerts[k].timestamp
          /\ (alerts'[k] # alerts[k]) =>
                /\ result'.op = "resolve_alert"
                /\ result'.code = "Ok"
                /\ result'.key = k
                /\ alerts'[k] = [alerts[k] EXCEPT !.is_active = FALSE]
    /\ (result'.op = "add_emergency_contact") =>
          UNCHANGED <<alerts, emergency_alert>>

\* What a step may do to the existing passes.
C19_NftStep ==
    \A k \in DOMAIN access_nfts :
        /\ k \in DOMAIN access_nfts'
        /\ access_nfts'[k].nft_id = access_nfts[k].nft_id
        /\ access_nfts'[k].tourist_id_hash = access_nfts[k].tourist_id_hash
        /\ access_nfts'[k].zone_id = access_nfts[k].zone_id
        /\ access_nfts'[k].expiry_timestamp = access_nfts[k].expiry_timestamp
        /\ access_nfts'[k].tourist_wallet = access_nfts[k].tourist_wallet
        /\ access_nfts'[k].minted_at = access_nfts[k].minted_at
        /\ (access_nfts'[k].is_valid # access_nfts[k].is_valid) =>
              /\ result'.op = "revoke_pass"
              /\ result'.code = "Ok"
              /\ result'.key = k
        /\ (access_nfts'[k].metadata_uri # access_nfts[k].metadata_uri) =>
              /\ result'.op = "update_metadata"
              /\ result'.code = "Ok"
              /\ result'.key = k

\* C19: records are never deleted and their immutable fields keep their
\* creation values: an alert's alert_id, tourist, alert_type, location,
\* description and timestamp (only resolve_alert changes an alert, and only
\* its is_active; add_emergency_contact changes no alert and not the
\* counter), and a pass's nft_id, tourist_id_hash, zone_id, expiry_timestamp,
\* tourist_wallet and minted_at (only revoke_pass changes is_valid, only
\* update_metadata changes metadata_uri).
C19_ImmutableFields ==
    /\ []C19_CreationValues
    /\ [][C19_AlertStep]_vars
    /\ [][C19_NftStep]_vars

\* C19 witness: with a contact added, the authority resolved another
\* signer's alert while a second alert stayed active.
C19_Witness ==
    /\ result.op = "resolve_alert"
    /\ result.code = "Ok"
    /\ result.caller # alerts[result.key].tourist
    /\ contacts # <<>>
    /\ \E k \in DOMAIN alerts : alerts[k].is_active

\* C20: in every reachable state of each registry the keys of the existing
\* records are exactly 0 .. counter - 1: the counter is the number of records
\* ever created, each record's stored id is the key its address is derived
\* from, and the address derived from the counter holds no record, so the next
\* creation cannot collide.
C20_IdsAreBelowCounter ==
    /\ DOMAIN alerts = 0..(AlertCounter - 1)
    /\ \A k \in DOMAIN alerts : alerts[k].alert_id = k
    /\ AlertCounter \notin DOMAIN alerts
    /\ Cardinality(TriggeredEvents) = AlertCounter
    /\ TriggerAlert # "AlreadyInUse"
    /\ DOMAIN access_nfts = 0..(NftCounter - 1)
    /\ \A k \in DOMAIN access_nfts : access_nfts[k].nft_id = k
    /\ NftCounter \notin DOMAIN access_nfts
    /\ Cardinality(MintedEvents) = NftCounter
    /\ MintAccessNft # "AlreadyInUse"

\* C20 witness: two passes were minted and one of them has been revoked.
C20_Witness ==
    /\ NftCounter > 1
    /\ \E j, k \in DOMAIN access_nfts :
          /\ j # k
          /\ ~access_nfts[k].is_valid

====
